---------------------------- MODULE Spec2Model ----------------------------
(***************************************************************************)
(* Model of source/_addonStore/models/addon.py: the add-on store models,   *)
(* their construction from catalog JSON and from local manifests, and the  *)
(* channel-partitioned, case-insensitive collection.                       *)
(*                                                                         *)
(* Representation of Python values:                                        *)
(*   str                  a TLA+ string; an addonId is a sequence of       *)
(*                        one-character strings so that str.lower() can be *)
(*                        computed character by character                  *)
(*   Optional[str]        <<>> for None, <<s>> for the string s            *)
(*   dict                 a function whose DOMAIN is the set of keys       *)
(*   MajorMinorPatch      [shape |-> "tuple", major, minor, patch]         *)
(*   JSON version object  [shape |-> "dict", major, minor, patch]          *)
(*   channel string       [type |-> "str", value |-> s]                    *)
(*   Channel member       [type |-> "Channel", value |-> s]; Channel is a  *)
(*                        str enumeration (line 228 indexes the            *)
(*                        Channel-keyed collection with the raw string),   *)
(*                        so both hash and compare by value as dict keys   *)
(*   raised exception     [kind |-> class name, arg |-> its argument]      *)
(***************************************************************************)
EXTENDS Integers, Sequences, FiniteSets, TLC

VARIABLES
    pc,               \* "idle", "loop", "returned", "raised"
    op,               \* the function being executed
    data,             \* json.loads(jsonData), line 224
    i,                \* position of the for loop of line 227 (next element)
    addonCollection,  \* the local addonCollection of _createStoreCollectionFromJson
    addon,            \* argument of _createStoreModelFromData / _createGUIModelFromManifest
    result,           \* value returned by the function
    reparsed,         \* result of _createStoreModelFromData(result.asdict())
    err               \* exception that left the function, NoErr if none

vars == <<pc, op, data, i, addonCollection, addon, result, reparsed, err>>

(***************************************************************************)
(* Bounds of the model                                                     *)
(***************************************************************************)
\* longest catalog array
MaxLen == 3
\* most keys of a top-level JSON object / characters of a top-level JSON string
MaxSize == 1

(***************************************************************************)
(* Python values                                                           *)
(***************************************************************************)
None == <<>>

Some(s) == <<s>>

NoErr == [kind |-> "none", arg |-> ""]

Raise(kind, arg) == [kind |-> kind, arg |-> arg]

Min(S) == CHOOSE n \in S : \A m \in S : n <= m

Max(S) == CHOOSE n \in S : \A m \in S : n >= m

\* str.lower() on one character
LowerChar(c) ==
    CASE c = "F" -> "f"
      [] c = "O" -> "o"
      [] c = "B" -> "b"
      [] OTHER -> c

\* str.lower(), as CaseInsensitiveDict applies it to its keys
lower(s) == [n \in DOMAIN s |-> LowerChar(s[n])]

(***************************************************************************)
(* Channel (from .channel): a closed str enumeration; ALL is the wildcard. *)
(* A member is a str equal to its value, yet a Channel: the two are told   *)
(* apart by "type" and compared, as dict keys, by "value".                 *)
(***************************************************************************)
Str(s) == [type |-> "str", value |-> s]

Member(v) == [type |-> "Channel", value |-> v]

ChannelValues == {"stable", "unstable", "external", "all"}

ChannelMembers == {Member(v) : v \in ChannelValues}

ALL == Member("all")

EXTERNAL == Member("external")

\* Channel(value) fails with ValueError unless value is a member or the value of one
ChannelError(value) ==
    IF value.value \in ChannelValues THEN NoErr ELSE Raise("ValueError", value.value)

\* Channel(value): the member itself, or the member with that value
Channel(value) ==
    IF value.type = "Channel"
        THEN value
        ELSE CHOOSE m \in ChannelMembers : m.value = value.value

(***************************************************************************)
(* MajorMinorPatch (from .version): a NamedTuple of major, minor, patch.   *)
(***************************************************************************)
\* MajorMinorPatch from keyword arguments: needs a mapping, else TypeError
MajorMinorPatchError(v) ==
    IF v.shape = "dict" THEN NoErr ELSE Raise("TypeError", "mapping")

MajorMinorPatchFromDict(v) ==
    [shape |-> "tuple", major |-> v.major, minor |-> v.minor, patch |-> v.patch]

\* MajorMinorPatch from the positional arguments of a triple
MajorMinorPatchFromTriple(t) ==
    [shape |-> "tuple", major |-> t[1], minor |-> t[2], patch |-> t[3]]

\* MajorMinorPatch._asdict()
MajorMinorPatch_asdict(v) ==
    [shape |-> "dict", major |-> v.major, minor |-> v.minor, patch |-> v.patch]

(***************************************************************************)
(* The model classes (lines 111-156): their fields.                        *)
(***************************************************************************)
VersionFields == {"addonVersionNumber", "minNVDAVersion", "lastTestedVersion"}

AddonGUIModelFields ==
    {"addonId", "displayName", "description", "publisher", "addonVersionName",
     "channel", "homepage", "minNVDAVersion", "lastTestedVersion", "legacy"}

AddonStoreModelFields ==
    AddonGUIModelFields \cup
        {"license", "licenseURL", "sourceURL", "URL", "sha256", "addonVersionNumber"}

\* _AddonGUIModel.asdict without the loop of lines 101-107: the version
\* fields stay MajorMinorPatch tuples (what dataclasses.asdict leaves)
asdict_noExpansion(self) == [field \in DOMAIN self |-> self[field]]

\* _AddonGUIModel.asdict (lines 99-108)
asdict(self) ==
    LET jsonData == [field \in DOMAIN self |-> self[field]]
    IN  [field \in DOMAIN jsonData |->
            IF field \in VersionFields
                THEN MajorMinorPatch_asdict(self[field])
                ELSE jsonData[field]]

(***************************************************************************)
(* _createStoreModelFromData (lines 167-185).  The keyword arguments are   *)
(* evaluated in the order written; each is                                 *)
(*   "index"            addon[key]                  KeyError if missing    *)
(*   "Channel"          Channel(addon[key])         KeyError, ValueError   *)
(*   "MajorMinorPatch"  MajorMinorPatch of addon[key] KeyError, TypeError   *)
(*   "get"              addon.get(key)              None if missing        *)
(*   "getFalse"         addon.get(key, False)       False if missing       *)
(***************************************************************************)
Arg(field, how) == [field |-> field, how |-> how]

StoreModelArgs ==
    << Arg("addonId", "index"),
       Arg("displayName", "index"),
       Arg("description", "index"),
       Arg("publisher", "index"),
       Arg("channel", "Channel"),
       Arg("addonVersionName", "index"),
       Arg("addonVersionNumber", "MajorMinorPatch"),
       Arg("homepage", "get"),
       Arg("license", "index"),
       Arg("licenseURL", "get"),
       Arg("sourceURL", "index"),
       Arg("URL", "index"),
       Arg("sha256", "index"),
       Arg("minNVDAVersion", "MajorMinorPatch"),
       Arg("lastTestedVersion", "MajorMinorPatch"),
       Arg("legacy", "getFalse") >>

\* the exception evaluating one keyword argument raises, NoErr if none
ArgError(d, a) ==
    CASE a.how \in {"get", "getFalse"} -> NoErr
      [] a.field \notin DOMAIN d -> Raise("KeyError", a.field)
      [] a.how = "Channel" -> ChannelError(d[a.field])
      [] a.how = "MajorMinorPatch" -> MajorMinorPatchError(d[a.field])
      [] OTHER -> NoErr

\* the value of one keyword argument
ArgValue(d, a) ==
    CASE a.how = "get" -> IF a.field \in DOMAIN d THEN d[a.field] ELSE None
      [] a.how = "getFalse" -> IF a.field \in DOMAIN d THEN d[a.field] ELSE FALSE
      [] a.how = "Channel" -> Channel(d[a.field])
      [] a.how = "MajorMinorPatch" -> MajorMinorPatchFromDict(d[a.field])
      [] OTHER -> d[a.field]

\* a constructor call: the first failing argument raises, else the instance
Construct(d, args) ==
    LET failing == {n \in DOMAIN args : ArgError(d, args[n]) # NoErr}
    IN  IF failing # {}
            THEN [ok |-> FALSE, model |-> None,
                  err |-> ArgError(d, args[Min(failing)])]
            ELSE [ok |-> TRUE,
                  model |-> [f \in {args[n].field : n \in DOMAIN args} |->
                                LET n == CHOOSE n \in DOMAIN args : args[n].field = f
                                IN  ArgValue(d, args[n])],
                  err |-> NoErr]

\* the argument list with one argument read another way
ArgsWith(args, field, how) ==
    [n \in DOMAIN args |->
        IF args[n].field = field THEN Arg(field, how) ELSE args[n]]

\* sha256 read with addon.get("sha256") instead of addon["sha256"]
_createStoreModelFromData_optionalSha256(d) ==
    Construct(d, ArgsWith(StoreModelArgs, "sha256", "get"))

\* channel=addon["channel"] instead of channel=Channel(addon["channel"])
_createStoreModelFromData_rawChannel(d) ==
    Construct(d, ArgsWith(StoreModelArgs, "channel", "index"))

\* homepage=addon["homepage"] instead of addon.get("homepage")
_createStoreModelFromData_requiredHomepage(d) ==
    Construct(d, ArgsWith(StoreModelArgs, "homepage", "index"))

_createStoreModelFromData(d) == Construct(d, StoreModelArgs)

(***************************************************************************)
(* _createGUIModelFromManifest (lines 188-203).  addon is an               *)
(* AddonHandlerBaseModel: name, version, manifest (a dict) and the two     *)
(* version triples.                                                        *)
(***************************************************************************)
ManifestKeysRead == <<"summary", "description", "author">>

\* the AddonGUIModel(...) call of lines 193-203, legacy left to its default (line 125)
GUIModelFromManifest(a, homepage, channel, legacy) ==
    LET missing == {n \in DOMAIN ManifestKeysRead :
                        ManifestKeysRead[n] \notin DOMAIN a.manifest}
    IN  IF missing # {}
            THEN [ok |-> FALSE, model |-> None,
                  err |-> Raise("KeyError", ManifestKeysRead[Min(missing)])]
            ELSE [ok |-> TRUE,
                  model |-> [addonId |-> a.name,
                             displayName |-> a.manifest["summary"],
                             description |-> a.manifest["description"],
                             publisher |-> a.manifest["author"],
                             channel |-> channel,
                             addonVersionName |-> a.version,
                             homepage |-> homepage,
                             minNVDAVersion |->
                                 MajorMinorPatchFromTriple(a.minimumNVDAVersion),
                             lastTestedVersion |->
                                 MajorMinorPatchFromTriple(a.lastTestedNVDAVersion),
                             legacy |-> legacy],
                  err |-> NoErr]

\* dict.get(key): None when the key is missing
Get(d, key) == IF key \in DOMAIN d THEN d[key] ELSE None

\* without lines 190-192: the manifest url is passed on as it is
_createGUIModelFromManifest_urlAsIs(a) ==
    GUIModelFromManifest(a, Get(a.manifest, "url"), EXTERNAL, FALSE)

\* channel and legacy read from the manifest when it has them
_createGUIModelFromManifest_fromManifest(a) ==
    LET homepage == Get(a.manifest, "url")
    IN  GUIModelFromManifest(a,
            IF homepage = Some("None") THEN None ELSE homepage,
            IF "channel" \in DOMAIN a.manifest
                THEN Channel(a.manifest["channel"]) ELSE EXTERNAL,
            IF "legacy" \in DOMAIN a.manifest THEN a.manifest["legacy"] ELSE FALSE)

_createGUIModelFromManifest(a) ==
    LET homepage == Get(a.manifest, "url")
    IN  GUIModelFromManifest(a,
            IF homepage = Some("None") THEN None ELSE homepage,
            EXTERNAL,
            FALSE)

(***************************************************************************)
(* The collection (AddonGUICollectionT, lines 42-47 and 206-216): a dict   *)
(* from Channel to a dict from addonId to model.  A CaseInsensitiveDict    *)
(* keeps, under the lower-cased key, the key as last written and the       *)
(* value; a plain dict keeps them under the key itself.                    *)
(***************************************************************************)
CaseInsensitiveDict == [caseInsensitive |-> TRUE, store |-> <<>>]

PlainDict == [caseInsensitive |-> FALSE, store |-> <<>>]

\* d[key] = value
SetItem(d, key, value) ==
    LET slot == IF d.caseInsensitive THEN lower(key) ELSE key
    IN  [d EXCEPT !.store =
            [k \in DOMAIN d.store \cup {slot} |->
                IF k = slot THEN [key |-> key, value |-> value] ELSE d.store[k]]]

\* {channel: CaseInsensitiveDict() for channel in Channel}, ALL not left out
_createAddonGUICollection_withAll ==
    [channel \in ChannelMembers |-> CaseInsensitiveDict]

\* {channel: dict() for channel in Channel if channel != Channel.ALL}
_createAddonGUICollection_plainDict ==
    [channel \in {c \in ChannelMembers : c # ALL} |-> PlainDict]

_createAddonGUICollection ==
    [channel \in {c \in ChannelMembers : c # ALL} |-> CaseInsensitiveDict]

\* the keys of the collection equal, as dict keys, to key (a str or a member)
KeysEqualTo(collection, key) == {c \in DOMAIN collection : c.value = key.value}

\* line 228 once its right-hand side is evaluated: the exception of
\* addonCollection[addon["channel"]], NoErr if the channel is a key
StoreError(collection, a) ==
    IF KeysEqualTo(collection, a["channel"]) = {}
        THEN Raise("KeyError", a["channel"].value)
        ELSE NoErr

\* the model stored in the dict of every channel
Store_everyChannel(collection, a, model) ==
    [c \in DOMAIN collection |-> SetItem(collection[c], a["addonId"], model)]

\* line 228: addonCollection[addon["channel"]][addon["addonId"]] = model
Store(collection, a, model) ==
    LET channel == CHOOSE c \in KeysEqualTo(collection, a["channel"]) : TRUE
    IN  [collection EXCEPT ![channel] = SetItem(@, a["addonId"], model)]

(***************************************************************************)
(* Inputs: catalog objects, JSON documents and installed add-ons.          *)
(***************************************************************************)
RequiredKeys ==
    {"addonId", "displayName", "description", "publisher", "channel",
     "addonVersionName", "addonVersionNumber", "license", "sourceURL", "URL",
     "sha256", "minNVDAVersion", "lastTestedVersion"}

OptionalKeys == {"homepage", "licenseURL", "legacy"}

Ids == {<<"F", "o", "o">>, <<"f", "o", "o">>, <<"B", "a", "r">>}

ChannelStrings == ChannelValues \cup {"bogus"}

VersionObject(major, minor, patch) ==
    [shape |-> "dict", major |-> major, minor |-> minor, patch |-> patch]

\* a catalog object with every required and optional key
CatalogObject(id, channel) ==
    [k \in RequiredKeys \cup OptionalKeys |->
        CASE k = "addonId" -> id
          [] k = "channel" -> Str(channel)
          [] k = "addonVersionNumber" -> VersionObject(1, 0, 0)
          [] k = "minNVDAVersion" -> VersionObject(2019, 1, 0)
          [] k = "lastTestedVersion" -> VersionObject(2023, 1, 0)
          [] k = "homepage" -> Some("http://home")
          [] k = "licenseURL" -> Some("http://license")
          [] k = "legacy" -> TRUE
          [] OTHER -> k]

Without(d, keys) == [k \in DOMAIN d \ keys |-> d[k]]

\* the sets of keys left out of a catalog object
Omissions ==
    (SUBSET OptionalKeys) \cup {{k} : k \in RequiredKeys}
        \cup {{"addonId", "sha256"}, {"sha256", "homepage"}}

\* the arguments _createStoreModelFromData is called with
CatalogObjects ==
    LET full == {CatalogObject(id, c) : id \in Ids, c \in ChannelStrings}
    IN  {Without(d, o) : d \in full, o \in Omissions}
        \cup {[d EXCEPT !["legacy"] = FALSE] : d \in full}
        \cup {[d EXCEPT !["homepage"] = None] : d \in full}
        \cup {[d EXCEPT !["minNVDAVersion"] = [@ EXCEPT !.shape = "list"]] : d \in full}

\* the elements of the catalog arrays
ArrayElements ==
    {CatalogObject(id, c) : id \in Ids, c \in {"stable", "unstable", "all", "bogus"}}
    \cup {Without(CatalogObject(<<"F", "o", "o">>, "stable"), {"sha256"}),
          Without(CatalogObject(<<"f", "o", "o">>, "all"), {"sha256"}),
          Without(CatalogObject(<<"B", "a", "r">>, "bogus"), {"sha256"}),
          Without(CatalogObject(<<"f", "o", "o">>, "stable"), {"homepage"})}

\* json.loads(jsonData): an array of objects, or another JSON value, of
\* which only the type and the number of keys or characters matter
JsonValues ==
    {[type |-> "array", items |-> s, size |-> Len(s)] :
        s \in UNION {[1..n -> ArrayElements] : n \in 0..MaxLen}}
    \cup {[type |-> t, items |-> <<>>, size |-> n] :
            t \in {"object", "string"}, n \in 0..MaxSize}
    \cup {[type |-> t, items |-> <<>>, size |-> 0] :
            t \in {"number", "boolean", "null"}}

NoData == [type |-> "none", items |-> <<>>, size |-> 0]

\* whether a for loop can iterate over the value
Iterable(d) == d.type \in {"array", "object", "string"}

ManifestUrls == {Some("None"), Some("none"), Some(""), Some("http://home")}

\* the installed add-ons _createGUIModelFromManifest is called with
InstalledAddons ==
    LET manifest == [k \in {"summary", "description", "author", "url", "channel", "legacy"} |->
                        CASE k = "url" -> None
                          [] k = "channel" -> Str("stable")
                          [] k = "legacy" -> TRUE
                          [] OTHER -> k]
        manifests == {Without([manifest EXCEPT !["url"] = u], o) :
                        u \in ManifestUrls,
                        o \in (SUBSET {"url", "channel", "legacy"}) \cup {{"summary"}}}
    IN  {[name |-> id, version |-> "1.0", manifest |-> m,
          minimumNVDAVersion |-> <<2019, 1, 0>>,
          lastTestedNVDAVersion |-> <<2023, 1, 0>>] :
            id \in Ids, m \in manifests}

NoReparse == [ok |-> FALSE, model |-> None, err |-> NoErr]

(***************************************************************************)
(* The state machine                                                       *)
(***************************************************************************)
Init ==
    /\ pc = "idle"
    /\ op = "none"
    /\ data = NoData
    /\ i = 0
    /\ addonCollection = <<>>
    /\ addon = None
    /\ result = None
    /\ reparsed = NoReparse
    /\ err = NoErr

\* _createStoreCollectionFromJson is called: lines 224-225
LoadJson ==
    /\ pc = "idle"
    /\ \E d \in JsonValues : data' = d
    /\ addonCollection' = _createAddonGUICollection
    /\ i' = 1
    /\ op' = "_createStoreCollectionFromJson"
    /\ pc' = "loop"
    /\ UNCHANGED <<addon, result, reparsed, err>>

\* one iteration of the for loop, lines 227-228: the right-hand side of the
\* assignment is evaluated first, then the targets
ForEach ==
    /\ pc = "loop"
    /\ ~(Iterable(data) /\ i > data.size)
    /\ IF ~Iterable(data)
          THEN /\ pc' = "raised"
               /\ err' = Raise("TypeError", "not iterable")
               /\ UNCHANGED <<i, addonCollection>>
          ELSE IF data.type # "array"
          THEN \* the element is a key of the object or a character of the string
               /\ pc' = "raised"
               /\ err' = Raise("TypeError", "str indices")
               /\ UNCHANGED <<i, addonCollection>>
          ELSE LET element == data.items[i]
                   made == _createStoreModelFromData(element)
               IN  IF ~made.ok
                      THEN /\ pc' = "raised"
                           /\ err' = made.err
                           /\ UNCHANGED <<i, addonCollection>>
                      ELSE IF StoreError(addonCollection, element) # NoErr
                      THEN /\ pc' = "raised"
                           /\ err' = StoreError(addonCollection, element)
                           /\ UNCHANGED <<i, addonCollection>>
                      ELSE /\ addonCollection' = Store(addonCollection, element, made.model)
                           /\ i' = i + 1
                           /\ UNCHANGED <<pc, err>>
    /\ UNCHANGED <<op, data, addon, result, reparsed>>

\* the loop is exhausted: line 229
ReturnCollection ==
    /\ pc = "loop"
    /\ Iterable(data)
    /\ i > data.size
    /\ result' = addonCollection
    /\ pc' = "returned"
    /\ UNCHANGED <<op, data, i, addonCollection, addon, reparsed, err>>

\* _createStoreModelFromData(addon), lines 167-185
CreateStoreModel ==
    /\ pc = "idle"
    /\ \E d \in CatalogObjects :
          LET made == _createStoreModelFromData(d)
          IN  /\ addon' = d
              /\ result' = made.model
              /\ err' = made.err
              /\ pc' = IF made.ok THEN "returned" ELSE "raised"
    /\ op' = "_createStoreModelFromData"
    /\ UNCHANGED <<data, i, addonCollection, reparsed>>

\* _createStoreModelFromData(model.asdict()) on the model just built
Reparse ==
    /\ pc = "returned"
    /\ op = "_createStoreModelFromData"
    /\ reparsed' = _createStoreModelFromData(asdict(result))
    /\ pc' = "reparsed"
    /\ UNCHANGED <<op, data, i, addonCollection, addon, result, err>>

\* _createGUIModelFromManifest(addon), lines 188-203
CreateGUIModel ==
    /\ pc = "idle"
    /\ \E a \in InstalledAddons :
          LET made == _createGUIModelFromManifest(a)
          IN  /\ addon' = a
              /\ result' = made.model
              /\ err' = made.err
              /\ pc' = IF made.ok THEN "returned" ELSE "raised"
    /\ op' = "_createGUIModelFromManifest"
    /\ UNCHANGED <<data, i, addonCollection, reparsed>>

Next ==
    \/ LoadJson
    \/ ForEach
    \/ ReturnCollection
    \/ CreateStoreModel
    \/ Reparse
    \/ CreateGUIModel

Spec == Init /\ [][Next]_vars

(***************************************************************************)
(* Properties                                                              *)
(***************************************************************************)
Collecting == op = "_createStoreCollectionFromJson"

Finished == pc \in {"returned", "raised"}

ParsedArray == Collecting /\ data.type = "array" /\ Finished

BuildingModel == op = "_createStoreModelFromData" /\ pc # "idle"

BuiltGUIModel == op = "_createGUIModelFromManifest" /\ pc = "returned"

\* the entries of a channel's dict whose key folds to the same identifier as id
Held(d, id) == {k \in DOMAIN d.store : lower(d.store[k].key) = lower(id)}

\* the positions of the array whose element is for channel c and identifier id
Positions(c, id) ==
    {n \in 1..Len(data.items) :
        /\ data.items[n]["channel"].value = c.value
        /\ lower(data.items[n]["addonId"]) = lower(id)}

\* C1: in every collection _createStoreCollectionFromJson returns, the keys
\* are exactly the channels other than ALL, and every entry's channel field
\* is the channel it is indexed under.
C1_IndexedUnderOwnChannel ==
    (Collecting /\ pc = "returned") =>
        /\ DOMAIN result = ChannelMembers \ {ALL}
        /\ \A c \in DOMAIN result :
             \A k \in DOMAIN result[c].store :
                result[c].store[k].value["channel"] = c

C1_Witness ==
    /\ ParsedArray
    /\ pc = "returned"
    /\ \E c1, c2 \in DOMAIN result :
          c1 # c2 /\ result[c1].store # <<>> /\ result[c2].store # <<>>

\* C2: in the returned collection each channel holds, for each case-folded
\* identifier, exactly one entry when the array has an element for that
\* channel and identifier, and none otherwise; the entry is the model and
\* the addonId of the last such element.
C2_LastWriteWinsPerFoldedId ==
    (ParsedArray /\ pc = "returned") =>
        \A c \in DOMAIN result : \A id \in Ids :
            IF Positions(c, id) = {}
                THEN Held(result[c], id) = {}
                ELSE LET last == data.items[Max(Positions(c, id))]
                     IN  /\ Cardinality(Held(result[c], id)) = 1
                         /\ \A k \in Held(result[c], id) :
                              /\ result[c].store[k].key = last["addonId"]
                              /\ result[c].store[k].value =
                                    _createStoreModelFromData(last).model

C2_Witness ==
    /\ ParsedArray
    /\ pc = "returned"
    /\ \E n, m \in 1..Len(data.items) :
          /\ n < m
          /\ data.items[n]["channel"] = data.items[m]["channel"]
          /\ data.items[n]["addonId"] = <<"F", "o", "o">>
          /\ data.items[m]["addonId"] = <<"f", "o", "o">>

LacksRequiredKey(d) == RequiredKeys \ DOMAIN d # {}

\* the elements before position n can be parsed and stored
AllStoredBefore(n) ==
    \A m \in 1..(n - 1) :
        /\ ~LacksRequiredKey(data.items[m])
        /\ data.items[m]["channel"].value \in ChannelValues \ {"all"}

C3_FailsWithoutCollection ==
    (ParsedArray /\ \E n \in 1..Len(data.items) : LacksRequiredKey(data.items[n])) =>
        /\ pc = "raised"
        /\ err # NoErr
        /\ result = None
        /\ LET first == Min({n \in 1..Len(data.items) : LacksRequiredKey(data.items[n])})
               element == data.items[first]
               known == IF "channel" \in DOMAIN element
                            THEN element["channel"].value \in ChannelValues
                            ELSE TRUE
           IN  (AllStoredBefore(first) /\ known) =>
                  (/\ i = first
                   /\ err.kind = "KeyError"
                   /\ err.arg \in RequiredKeys \ DOMAIN element)

\* C3: when an element of the array lacks a required key, the function
\* raises and returns no collection; the failing iteration adds nothing to
\* the collection built so far; and when that element is the first one that
\* cannot be parsed and stored and its channel is a known one, the exception
\* is the KeyError naming a key the element lacks.
C3_MissingKeyFailsFast ==
    /\ []C3_FailsWithoutCollection
    /\ [][(Collecting /\ pc' = "raised") =>
            (addonCollection' = addonCollection /\ result' = None)]_vars

C3_Witness ==
    /\ ParsedArray
    /\ pc = "raised"
    /\ i > 1
    /\ err = Raise("KeyError", "sha256")
    /\ \E c \in DOMAIN addonCollection : addonCollection[c].store # <<>>

\* the keys _createStoreModelFromData reads before it converts the channel
ReadBeforeChannel == {"addonId", "displayName", "description", "publisher"}

\* C4: _createStoreModelFromData on an object whose channel string is not a
\* Channel value (and that has the keys read before it) raises the
\* ValueError of Channel(...) for that string and builds no model; an array
\* with such an element yields no collection.
C4_UnknownChannelRaises ==
    /\ (/\ BuildingModel
        /\ ReadBeforeChannel \cup {"channel"} \subseteq DOMAIN addon
        /\ addon["channel"].value \notin ChannelValues)
       => (/\ pc = "raised"
           /\ err = Raise("ValueError", addon["channel"].value)
           /\ result = None)
    /\ (/\ ParsedArray
        /\ \E n \in 1..Len(data.items) :
              /\ "channel" \in DOMAIN data.items[n]
              /\ data.items[n]["channel"].value \notin ChannelValues)
       => (pc = "raised" /\ result = None)

C4_Witness ==
    /\ BuildingModel
    /\ pc = "raised"
    /\ RequiredKeys \subseteq DOMAIN addon
    /\ addon["channel"] = Str("bogus")
    /\ err = Raise("ValueError", "bogus")

\* C5: for a top-level JSON value that is not an array the function raises
\* and returns no collection.
C5_NonArrayRaises ==
    (Collecting /\ data.type # "array" /\ Finished) =>
        (pc = "raised" /\ result = None)

\* C6: re-parsing the asdict() of a model built by _createStoreModelFromData
\* succeeds and gives a model with the same fields and the same value in each.
C6_RoundTrip ==
    (pc = "reparsed") =>
        /\ reparsed.ok
        /\ DOMAIN reparsed.model = AddonStoreModelFields
        /\ \A f \in AddonStoreModelFields : reparsed.model[f] = result[f]

C6_Witness ==
    /\ pc = "reparsed"
    /\ reparsed.ok
    /\ result["homepage"] = None
    /\ result["legacy"] = TRUE
    /\ result["channel"] = Member("unstable")
    /\ result["minNVDAVersion"] =
          [shape |-> "tuple", major |-> 2019, minor |-> 1, patch |-> 0]

\* C7: a manifest url that is the string "None" gives homepage None; any
\* other string gives that string as homepage.
C7_HomepageNormalized ==
    (BuiltGUIModel /\ "url" \in DOMAIN addon.manifest) =>
        /\ (addon.manifest["url"] = Some("None")) => (result["homepage"] = None)
        /\ (addon.manifest["url"] # Some("None") /\ addon.manifest["url"] # None)
              => (result["homepage"] = addon.manifest["url"])

C7_Witness ==
    /\ BuiltGUIModel
    /\ "url" \in DOMAIN addon.manifest
    /\ addon.manifest["url"] = Some("None")
    /\ result["homepage"] = None

\* C8: every model _createGUIModelFromManifest builds has channel EXTERNAL
\* and legacy False, whatever the manifest holds.
C8_ExternalNotLegacy ==
    BuiltGUIModel => (result["channel"] = EXTERNAL /\ result["legacy"] = FALSE)

C8_Witness ==
    /\ BuiltGUIModel
    /\ {"channel", "legacy"} \subseteq DOMAIN addon.manifest
    /\ addon.manifest["legacy"] = TRUE

\* the values of the required keys are of the kind the constructor accepts
RequiredValuesValid(d) ==
    /\ d["channel"].value \in ChannelValues
    /\ \A k \in VersionFields : d[k].shape = "dict"

\* C9: an object with every required key (and values the constructor
\* accepts) parses whichever optional keys it omits; homepage and licenseURL
\* are None when omitted, legacy is False when omitted, and each is the
\* object's value when present.
C9_OptionalKeysDefault ==
    (/\ BuildingModel
     /\ RequiredKeys \subseteq DOMAIN addon
     /\ RequiredValuesValid(addon))
    => (/\ pc # "raised"
        /\ err = NoErr
        /\ \A k \in {"homepage", "licenseURL"} :
              result[k] = IF k \in DOMAIN addon THEN addon[k] ELSE None
        /\ result["legacy"] = IF "legacy" \in DOMAIN addon THEN addon["legacy"] ELSE FALSE)

C9_Witness ==
    /\ BuildingModel
    /\ pc = "returned"
    /\ DOMAIN addon = RequiredKeys \cup {"licenseURL"}
    /\ result["homepage"] = None
    /\ result["licenseURL"] = Some("http://license")
    /\ result["legacy"] = FALSE

\* an iteration that stores its element changes the dict of that element's
\* channel and of no other channel
OnlyOwnChannelWritten ==
    (Collecting /\ pc = "loop" /\ pc' = "loop" /\ i' = i + 1) =>
        LET c == Channel(data.items[i]["channel"])
        IN  /\ DOMAIN addonCollection' = DOMAIN addonCollection
            /\ Held(addonCollection'[c], data.items[i]["addonId"]) # {}
            /\ \A other \in DOMAIN addonCollection \ {c} :
                  addonCollection'[other] = addonCollection[other]

\* every element of a parsed array is held by the dict of its own channel
EveryChannelKeepsItsOwn ==
    (ParsedArray /\ pc = "returned") =>
        \A n \in 1..Len(data.items) :
            LET c == Channel(data.items[n]["channel"])
            IN  \E k \in Held(result[c], data.items[n]["addonId"]) :
                    result[c].store[k].value["channel"] = c

\* C10: storing an element changes only the dict of its channel, so an
\* identifier present under two channels of one array is held once in each.
C10_ChannelIsolation ==
    /\ [][OnlyOwnChannelWritten]_vars
    /\ []EveryChannelKeepsItsOwn

C10_Witness ==
    /\ ParsedArray
    /\ pc = "returned"
    /\ \E n, m \in 1..Len(data.items) :
          /\ data.items[n]["channel"] # data.items[m]["channel"]
          /\ data.items[n]["addonId"] = <<"F", "o", "o">>
          /\ data.items[m]["addonId"] = <<"f", "o", "o">>
          /\ Held(result[Channel(data.items[n]["channel"])], <<"f", "o", "o">>) # {}
          /\ Held(result[Channel(data.items[m]["channel"])], <<"f", "o", "o">>) # {}

=============================================================================
